---- MODULE Spec2Model ----
(***************************************************************************)
(* Model of upstream/upstream.go: construction of the dialer initializer  *)
(* (newDialerInitializer), of the bootstrap resolver chain (newResolvers) *)
(* and its close function, and the concurrent invocations of the lazily   *)
(* memoizing DialerInitializer closure.                                    *)
(***************************************************************************)
EXTENDS Integers, Sequences, FiniteSets, TLC

\* ------------------------------------------------------------- bounds ----
NumProcs == 2      \* concurrent callers (exchanges) of one initializer
MaxCalls == 2      \* invocations of the initializer per caller
MaxBoot  == 3      \* longest Options.Bootstrap list
MaxIPs   == 1      \* longest Options.ServerIPAddrs list
MaxBootLive == 1   \* longest Options.Bootstrap list in the liveness check

Procs == 1..NumProcs

\* ------------------------------------------------------------- inputs ----
\* The upstream URL u, as netutil.SplitHostPort sees u.Host: a host name with
\* a port, a literal IP address with a port, and a host without a port (which
\* SplitHostPort rejects).
Urls == { [host |-> "dns.example", port |-> "853"],
          [host |-> "1.1.1.1",     port |-> "853"],
          [host |-> "dns.example", port |-> ""] }

\* Options.Bootstrap entries: the empty string, an address
\* NewUpstreamResolver accepts, an address it rejects.
BootEntries == {"", "8.8.8.8:53", "bad://"}

\* Options.ServerIPAddrs elements.
IPAddrs == {"9.9.9.9"}

IPLiterals == IPAddrs \cup {"1.1.1.1", "8.8.8.8", "fe80::abcd"}

SeqsUpTo(S, n) == UNION {[1..k -> S] : k \in 0..n}

\* ------------------------------------------------------------- values ----
\* bootstrap.DialHandler values; NoHandler is the nil pointer / nil handler.
NoHandler == [kind |-> "none", id |-> 0, addrs |-> <<>>]

\* bootstrap.NewDialContext(opts.Timeout, addrs...)
NewDialContext(addrs) == [kind |-> "static", id |-> 0, addrs |-> addrs]

\* The handler the n-th call of bootstrap.ResolveDialContext returns (each
\* call allocates its own h, so &h differs between invocations).
ResolvedHandler(n) == [kind |-> "resolved", id |-> n, addrs |-> <<>>]

\* An error is the sequence of the leaf errors it wraps; nil is <<>>.
NoError == <<>>

\* errors.Join: drops nil errors, returns nil when none is left, otherwise
\* wraps all the others in order.
RECURSIVE Join(_)
Join(errs) ==
    IF errs = <<>> THEN NoError
    ELSE Head(errs) \o Join(Tail(errs))

\* fmt.Errorf("preparing bootstrap resolver at index %d: %w", i, rErr)
BootErr(i) == << [kind |-> "boot", index |-> i] >>

\* The error returned by r.Close() of the resolver built from entry i.
CloseErr(i) == << [kind |-> "close", index |-> i] >>

\* fmt.Errorf("invalid address: %s: %w", u.Host, err)
InvalidAddrErr == << [kind |-> "invalid address", index |-> 0] >>

\* fmt.Errorf("creating dial handler: %w", resolveErr)
ResolveErr == << [kind |-> "creating dial handler", index |-> 0] >>

\* A nil pointer dereference (run-time panic).
PanicErr == << [kind |-> "nil dereference", index |-> 0] >>

\* NewUpstreamResolver(boot, opts) returns an error for an address it cannot
\* turn into an upstream.
NewUpstreamResolverFails(boot) == boot = "bad://"

\* netutil.SplitHostPort(u.Host) fails when the port is missing.
SplitHostPortFails(u) == u.port = ""

\* netip.ParseAddr(host) succeeds on a literal IP address only.
ParseAddrOk(host) == host \in IPLiterals

\* netutil.JoinHostPort(addr.String(), port)
JoinHostPort(addr, port) == <<addr, port>>

\* ------------------------------------------------- bootstrap resolvers ----
\* &net.Resolver{}
SystemResolver == [kind |-> "system", boot |-> "", index |-> -1]

\* The upstreamResolver NewUpstreamResolver builds from entry i.
UpstreamResolver(boot, i) == [kind |-> "upstream", boot |-> boot, index |-> i]

\* func nopClose() (err error) { return nil }
nopClose == [nop |-> TRUE, closeBoots |-> <<>>]

\* A Close call on the resolver built from entry i, and whether it failed.
CloseCall(i, fails) == [index |-> i, failed |-> i \in fails]

\* A short-circuiting close: stops at the first closer that fails.
RECURSIVE ChainCloseFirstError(_, _)
ChainCloseFirstError(closeBoots, fails) ==
    IF closeBoots = <<>> THEN [called |-> <<>>, err |-> NoError]
    ELSE IF Head(closeBoots) \in fails
    THEN [called |-> <<CloseCall(Head(closeBoots), fails)>>,
          err    |-> CloseErr(Head(closeBoots))]
    ELSE LET r == ChainCloseFirstError(Tail(closeBoots), fails) IN
         [called |-> <<CloseCall(Head(closeBoots), fails)>> \o r.called,
          err    |-> r.err]

\* The closure newResolvers returns: it calls every closer of closeBoots and
\* joins what they return.  fails is the set of entry indices whose Close
\* returns an error.  called is the sequence of Close calls made.
ChainClose(closeBoots, fails) ==
    [called |-> [k \in 1..Len(closeBoots) |-> CloseCall(closeBoots[k], fails)],
     err    |-> Join([k \in 1..Len(closeBoots) |->
                        IF closeBoots[k] \in fails
                        THEN CloseErr(closeBoots[k]) ELSE NoError])]

\* Calling a closeFunc.
CallClose(cf, fails) ==
    IF cf.nop THEN [called |-> <<>>, err |-> NoError]
    ELSE ChainClose(cf.closeBoots, fails)

\* A loop that goes on after a failed construction instead of breaking.
RECURSIVE NewResolversLoopContinue(_, _, _)
NewResolversLoopContinue(bootstraps, k, acc) ==
    IF k > Len(bootstraps) THEN acc
    ELSE LET boot == bootstraps[k] IN
         IF boot = ""
         THEN NewResolversLoopContinue(bootstraps, k + 1,
                  [acc EXCEPT !.resolvers = Append(@, SystemResolver),
                              !.attempted = Append(@, k - 1)])
         ELSE IF NewUpstreamResolverFails(boot)
         THEN NewResolversLoopContinue(bootstraps, k + 1,
                  [acc EXCEPT !.resolvers = <<>>,
                              !.err       = IF @ = NoError THEN BootErr(k - 1) ELSE @,
                              !.attempted = Append(@, k - 1)])
         ELSE NewResolversLoopContinue(bootstraps, k + 1,
                  [acc EXCEPT !.resolvers  = Append(@, UpstreamResolver(boot, k - 1)),
                              !.closeBoots = Append(@, k - 1),
                              !.attempted  = Append(@, k - 1)])

\* A loop that adds no system-default resolver for an empty entry.
RECURSIVE NewResolversLoopSkipEmpty(_, _, _)
NewResolversLoopSkipEmpty(bootstraps, k, acc) ==
    IF k > Len(bootstraps) THEN acc
    ELSE LET boot == bootstraps[k] IN
         IF boot = ""
         THEN NewResolversLoopSkipEmpty(bootstraps, k + 1, acc)
         ELSE IF NewUpstreamResolverFails(boot)
         THEN [acc EXCEPT !.resolvers = <<>>,
                          !.err       = BootErr(k - 1),
                          !.attempted = Append(@, k - 1)]
         ELSE NewResolversLoopSkipEmpty(bootstraps, k + 1,
                  [acc EXCEPT !.resolvers  = Append(@, UpstreamResolver(boot, k - 1)),
                              !.closeBoots = Append(@, k - 1),
                              !.attempted  = Append(@, k - 1)])

\* The loop of newResolvers from entry k (1-based; the code's i is k - 1).
\* attempted lists the indices at which a resolver construction was made.
RECURSIVE NewResolversLoop(_, _, _)
NewResolversLoop(bootstraps, k, acc) ==
    IF k > Len(bootstraps) THEN acc
    ELSE LET boot == bootstraps[k] IN
         IF boot = ""
         THEN NewResolversLoop(bootstraps, k + 1,
                  [acc EXCEPT !.resolvers = Append(@, SystemResolver),
                              !.attempted = Append(@, k - 1)])
         ELSE IF NewUpstreamResolverFails(boot)
         THEN [acc EXCEPT !.resolvers = <<>>,
                          !.err       = BootErr(k - 1),
                          !.attempted = Append(@, k - 1)]
         ELSE NewResolversLoop(bootstraps, k + 1,
                  [acc EXCEPT !.resolvers  = Append(@, UpstreamResolver(boot, k - 1)),
                              !.closeBoots = Append(@, k - 1),
                              !.attempted  = Append(@, k - 1)])

\* newResolvers(opts): the resolvers, the close function and the error.
newResolvers(opts) ==
    IF Len(opts.Bootstrap) = 0
    THEN [resolvers |-> <<SystemResolver>>, closeBoot |-> nopClose,
          err |-> NoError, attempted |-> <<>>]
    ELSE LET r == NewResolversLoop(opts.Bootstrap, 1,
                      [resolvers |-> <<>>, closeBoots |-> <<>>,
                       err |-> NoError, attempted |-> <<>>])
         IN [resolvers |-> r.resolvers,
             closeBoot |-> [nop |-> FALSE, closeBoots |-> r.closeBoots],
             err       |-> r.err,
             attempted |-> r.attempted]

\* ---------------------------------------------------- newDialerInitializer
\* A constructor that uses the explicit server addresses only when the host
\* is a literal IP address too.
newDialerInitializerResolveNames(u, opts, fails) ==
    LET none == [di |-> "nil", handler |-> NoHandler, closeBoot |-> nopClose,
                 err |-> NoError, resolvers |-> <<>>, attempted |-> <<>>,
                 closed |-> <<>>]
    IN
    IF SplitHostPortFails(u)
    THEN [none EXCEPT !.err = InvalidAddrErr]
    ELSE IF ParseAddrOk(u.host)
    THEN [none EXCEPT !.di = "fast",
                      !.handler = NewDialContext(<< <<u.host, u.port>> >>)]
    ELSE LET r == newResolvers(opts) IN
         IF r.err # NoError
         THEN LET c == CallClose(r.closeBoot, fails) IN
              [none EXCEPT !.err = Join(<<r.err, c.err>>),
                           !.attempted = r.attempted,
                           !.closed = c.called]
         ELSE [none EXCEPT !.di = "slow",
                           !.closeBoot = r.closeBoot,
                           !.resolvers = r.resolvers,
                           !.attempted = r.attempted]

\* The result of newDialerInitializer(u, opts): di is "nil", "fast" (the
\* closure returning a precomputed handler) or "slow" (the memoizing closure).
\* closed lists the Close calls made while unwinding a failed construction.
newDialerInitializer(u, opts, fails) ==
    LET none == [di |-> "nil", handler |-> NoHandler, closeBoot |-> nopClose,
                 err |-> NoError, resolvers |-> <<>>, attempted |-> <<>>,
                 closed |-> <<>>]
    IN
    IF SplitHostPortFails(u)
    THEN [none EXCEPT !.err = InvalidAddrErr]
    ELSE IF Len(opts.ServerIPAddrs) > 0
    THEN [none EXCEPT !.di = "fast",
                      !.handler = NewDialContext(
                          [k \in 1..Len(opts.ServerIPAddrs) |->
                              JoinHostPort(opts.ServerIPAddrs[k], u.port)])]
    ELSE IF ParseAddrOk(u.host)
    THEN [none EXCEPT !.di = "fast",
                      !.handler = NewDialContext(<< <<u.host, u.port>> >>)]
    ELSE LET r == newResolvers(opts) IN
         IF r.err # NoError
         THEN LET c == CallClose(r.closeBoot, fails) IN
              [none EXCEPT !.err = Join(<<r.err, c.err>>),
                           !.attempted = r.attempted,
                           !.closed = c.called]
         ELSE [none EXCEPT !.di = "slow",
                           !.closeBoot = r.closeBoot,
                           !.resolvers = r.resolvers,
                           !.attempted = r.attempted]

\* ------------------------------------------------------ address parsing --
\* An address is a sequence of tokens: names, numbers and the delimiters
\* "://", ":", "[", "]".  Flat is the string the tokens spell.
RECURSIVE Flat(_)
Flat(toks) == IF toks = <<>> THEN "" ELSE Head(toks) \o Flat(Tail(toks))

\* The decimal strings of the model and the numbers they denote.
PortNumber == [t \in {"53", "443", "853", "65535", "65536"} |->
                 CASE t = "53"    -> 53
                   [] t = "443"   -> 443
                   [] t = "853"   -> 853
                   [] t = "65535" -> 65535
                   [] t = "65536" -> 65536]

defaultPortPlain == 53
defaultPortDoH == 443
defaultPortDoT == 853
defaultPortDoQ == 853

\* The largest value strconv.ParseUint(port, 10, 16) accepts.
MaxUint16 == 65535

\* strconv.ParseUint(port, 10, 16) succeeds.
ParseUint16Ok(port) == port \in DOMAIN PortNumber /\ PortNumber[port] <= MaxUint16

\* strconv.Itoa of a port number.
PortString(n) == CHOOSE t \in DOMAIN PortNumber : PortNumber[t] = n

\* strings.Contains(addr, "://")
ContainsSchemeSep(addr) == \E i \in 1..Len(addr) : addr[i] = "://"

Positions(toks, t) == {i \in 1..Len(toks) : toks[i] = t}
MaxOf(S) == CHOOSE x \in S : \A y \in S : y <= x
MinOf(S) == CHOOSE x \in S : \A y \in S : x <= y

\* net.SplitHostPort: the host and the port around the last colon; an error
\* without a colon (missing port), with a further colon outside brackets
\* (too many colons) or with an unclosed or misplaced bracket.
NetSplitHostPort(toks) ==
    LET bad == [ok |-> FALSE, host |-> "", port |-> ""]
        colons == Positions(toks, ":")
    IN
    IF colons = {} THEN bad
    ELSE LET i == MaxOf(colons)
             port == Flat(SubSeq(toks, i + 1, Len(toks)))
         IN
         IF toks[1] = "["
         THEN LET ends == Positions(toks, "]") IN
              IF ends = {} \/ MinOf(ends) + 1 # i THEN bad
              ELSE [ok |-> TRUE, host |-> Flat(SubSeq(toks, 2, i - 2)),
                    port |-> port]
         ELSE IF \E k \in colons : k < i THEN bad
         ELSE [ok |-> TRUE, host |-> Flat(SubSeq(toks, 1, i - 1)),
               port |-> port]

\* netutil.JoinHostPort on tokens: brackets around a host with colons.
JoinHostPortToks(host, port) ==
    IF Positions(host, ":") # {}
    THEN <<"[">> \o host \o <<"]", ":", PortString(port)>>
    ELSE host \o <<":", PortString(port)>>

\* An addPort that appends the port whether or not one is there.
addPortAlways(uu, port) ==
    [uu EXCEPT !.Host = JoinHostPortToks(uu.Host, port)]

\* addPort appends port to u if it's absent.
addPort(uu, port) ==
    IF ~NetSplitHostPort(uu.Host).ok
    THEN [uu EXCEPT !.Host = JoinHostPortToks(uu.Host, port)]
    ELSE uu

\* Tokens url.Parse rejects wherever they stand (an invalid escape).
InvalidURLTokens == {"%zz"}

\* url.Parse of a URL-shaped address: the scheme before "://", the
\* authority up to the path, the path.  It fails on a missing scheme, on an
\* invalid escape and on a port that is not made of digits.
UrlParse(addr) ==
    LET bad  == [ok |-> FALSE, Scheme |-> "", Host |-> <<>>, Path |-> ""]
        i    == MinOf(Positions(addr, "://"))
        rest == SubSeq(addr, i + 1, Len(addr))
        slashes == {k \in 1..Len(rest) : rest[k] \in {"/dns-query"}}
        hostEnd == IF slashes = {} THEN Len(rest) ELSE MinOf(slashes) - 1
        host == SubSeq(rest, 1, hostEnd)
        path == Flat(SubSeq(rest, hostEnd + 1, Len(rest)))
        colons == Positions(host, ":")
        portToks == IF colons = {} THEN <<>>
                    ELSE SubSeq(host, MaxOf(colons) + 1, Len(host))
    IN
    IF i = 1 THEN bad
    ELSE IF \E k \in 1..Len(addr) : addr[k] \in InvalidURLTokens THEN bad
    ELSE IF \E k \in 1..Len(portToks) : portToks[k] \notin DOMAIN PortNumber
    THEN bad
    ELSE [ok |-> TRUE, Scheme |-> Flat(SubSeq(addr, 1, i - 1)),
          Host |-> host, Path |-> path]

\* Errors of AddressToUpstream; input is the offending address or stamp.
AddrErr(kind, input) == << [kind |-> kind, index |-> 0, input |-> input] >>

\* No Upstream (nil).
NoUpstream == [kind |-> "none", Host |-> <<>>, Path |-> "", di |-> "nil",
               resolvers |-> <<>>, attempted |-> <<>>]

\* u.Host as newDialerInitializer's netutil.SplitHostPort sees it: host and
\* 16-bit port, or no port when the split or the port parse fails.
DialURL(uu) ==
    LET sp == NetSplitHostPort(uu.Host) IN
    IF sp.ok /\ ParseUint16Ok(sp.port)
    THEN [host |-> sp.host, port |-> sp.port]
    ELSE [host |-> Flat(uu.Host), port |-> ""]

\* A transport constructor: it injects the default port of its protocol,
\* obtains its dial target from newDialerInitializer and returns the upstream
\* whose address is host:port, or the initializer's error and no upstream.
TransportOf(kind, withPort, d, opts) ==
    IF d.err # NoError
    THEN [u |-> NoUpstream, err |-> d.err, opts |-> opts, calls |-> <<kind>>]
    ELSE [u |-> [kind |-> kind, Host |-> withPort.Host, Path |-> withPort.Path,
                 di |-> d.di, resolvers |-> d.resolvers,
                 attempted |-> d.attempted],
          err |-> NoError, opts |-> opts, calls |-> <<kind>>]

TransportAt(kind, withPort, opts, fails) ==
    TransportOf(kind, withPort,
                newDialerInitializer(DialURL(withPort), opts, fails), opts)

NewTransport(kind, port, uu, opts, fails) ==
    TransportAt(kind, addPort(uu, port), opts, fails)

newPlain(uu, opts, fails) == NewTransport("plain", defaultPortPlain, uu, opts, fails)
newDoT(uu, opts, fails) == NewTransport("DoT", defaultPortDoT, uu, opts, fails)
newDoH(uu, opts, fails) == NewTransport("DoH", defaultPortDoH, uu, opts, fails)
newDoQ(uu, opts, fails) == NewTransport("DoQ", defaultPortDoQ, uu, opts, fails)

\* newDNSCrypt(upsURL, opts) takes the stamp URL as it is and cannot fail.
newDNSCrypt(uu, opts) ==
    [u |-> [kind |-> "DNSCrypt", Host |-> uu.Host, Path |-> uu.Path,
            di |-> "nil", resolvers |-> <<>>, attempted |-> <<>>],
     err |-> NoError, opts |-> opts, calls |-> <<"DNSCrypt">>]

\* ------------------------------------------------------------- stamps ----
\* dnsstamps.NewServerStampFromString, by table: the stamps of the model, as
\* the token after "sdns://".
Stamps ==
    [t \in {"stampDoH-addr", "stampDoH", "stampTLS-addrport", "stampDoQ",
            "stampPlain-addr", "stampDNSCrypt-addr", "stampDoH-badaddr",
            "stampRelay-addr", "stampDoH-addr-badprovider"} |->
       CASE t = "stampDoH-addr" ->
              [Proto |-> "DoH", ServerAddrStr |-> <<"8.8.8.8">>,
               ProviderName |-> <<"dns.example">>, Path |-> "/dns-query"]
         [] t = "stampDoH" ->
              [Proto |-> "DoH", ServerAddrStr |-> <<>>,
               ProviderName |-> <<"dns.example">>, Path |-> "/dns-query"]
         [] t = "stampTLS-addrport" ->
              [Proto |-> "TLS", ServerAddrStr |-> <<"8.8.8.8", ":", "853">>,
               ProviderName |-> <<"dns.example">>, Path |-> ""]
         [] t = "stampDoQ" ->
              [Proto |-> "DoQ", ServerAddrStr |-> <<>>,
               ProviderName |-> <<"1.1.1.1">>, Path |-> ""]
         [] t = "stampPlain-addr" ->
              [Proto |-> "Plain", ServerAddrStr |-> <<"8.8.8.8">>,
               ProviderName |-> <<>>, Path |-> ""]
         [] t = "stampDNSCrypt-addr" ->
              [Proto |-> "DNSCrypt", ServerAddrStr |-> <<"8.8.8.8", ":", "443">>,
               ProviderName |-> <<"2.dnscrypt-cert.example">>, Path |-> ""]
         [] t = "stampDoH-badaddr" ->
              [Proto |-> "DoH", ServerAddrStr |-> <<"dns.example">>,
               ProviderName |-> <<"dns.example">>, Path |-> "/dns-query"]
         [] t = "stampRelay-addr" ->
              [Proto |-> "DNSCryptRelay", ServerAddrStr |-> <<"8.8.8.8">>,
               ProviderName |-> <<>>, Path |-> ""]
         [] t = "stampDoH-addr-badprovider" ->
              [Proto |-> "DoH", ServerAddrStr |-> <<"8.8.8.8">>,
               ProviderName |-> <<"dns.example", ":", "65536">>,
               Path |-> "/dns-query"]]

\* net.ParseIP(host) # nil
ParseIPOk(host) == host \in IPLiterals

\* The switch of parseStamp on stamp.Proto.
StampSwitch(stamp, upsURL, opts, fails) ==
    CASE stamp.Proto = "Plain" ->
           newPlain([Scheme |-> "udp", Host |-> stamp.ServerAddrStr, Path |-> ""],
                    opts, fails)
      [] stamp.Proto = "DNSCrypt" -> newDNSCrypt(upsURL, opts)
      [] stamp.Proto = "DoH" ->
           newDoH([Scheme |-> "https", Host |-> stamp.ProviderName,
                   Path |-> stamp.Path], opts, fails)
      [] stamp.Proto = "DoQ" ->
           newDoQ([Scheme |-> "quic", Host |-> stamp.ProviderName,
                   Path |-> stamp.Path], opts, fails)
      [] stamp.Proto = "TLS" ->
           newDoT([Scheme |-> "tls", Host |-> stamp.ProviderName, Path |-> ""],
                  opts, fails)
      [] OTHER ->
           [u |-> NoUpstream,
            err |-> AddrErr("unsupported stamp protocol", upsURL.Host),
            opts |-> opts, calls |-> <<>>]

\* The host netutil.SplitHostPort finds in the stamp's server address, or the
\* whole address when it does not split.
StampHost(stamp) ==
    LET sp == NetSplitHostPort(stamp.ServerAddrStr) IN
    IF sp.ok /\ ParseUint16Ok(sp.port) THEN sp.host
    ELSE Flat(stamp.ServerAddrStr)

\* A parseStamp that appends the stamp's address to the configured ones.
parseStampAppend(upsURL, opts, fails) ==
    IF Len(upsURL.Host) # 1 \/ upsURL.Host[1] \notin DOMAIN Stamps
    THEN [u |-> NoUpstream, err |-> AddrErr("failed to parse", upsURL.Host),
          opts |-> opts, calls |-> <<>>]
    ELSE LET stamp == Stamps[upsURL.Host[1]] IN
         IF stamp.ServerAddrStr # <<>>
         THEN IF ~ParseIPOk(StampHost(stamp))
              THEN [u |-> NoUpstream,
                    err |-> AddrErr("invalid server stamp address",
                                    stamp.ServerAddrStr),
                    opts |-> opts, calls |-> <<>>]
              ELSE StampSwitch(stamp, upsURL,
                       [opts EXCEPT !.ServerIPAddrs = Append(@, StampHost(stamp))],
                       fails)
         ELSE StampSwitch(stamp, upsURL, opts, fails)

\* parseStamp converts a DNS stamp to an Upstream.  opts in the result is the
\* caller's Options after the call (they are modified in place).
parseStamp(upsURL, opts, fails) ==
    IF Len(upsURL.Host) # 1 \/ upsURL.Host[1] \notin DOMAIN Stamps
    THEN [u |-> NoUpstream, err |-> AddrErr("failed to parse", upsURL.Host),
          opts |-> opts, calls |-> <<>>]
    ELSE LET stamp == Stamps[upsURL.Host[1]] IN
         IF stamp.ServerAddrStr # <<>>
         THEN IF ~ParseIPOk(StampHost(stamp))
              THEN [u |-> NoUpstream,
                    err |-> AddrErr("invalid server stamp address",
                                    stamp.ServerAddrStr),
                    opts |-> opts, calls |-> <<>>]
              ELSE StampSwitch(stamp, upsURL,
                       [opts EXCEPT !.ServerIPAddrs = <<StampHost(stamp)>>],
                       fails)
         ELSE StampSwitch(stamp, upsURL, opts, fails)

\* ------------------------------------------------------------ dispatch ---
\* A dispatcher without the "h3" case.
urlToUpstreamNoH3(uu, opts, fails) ==
    CASE uu.Scheme = "sdns" ->
           LET r == parseStamp(uu, opts, fails) IN
           [r EXCEPT !.calls = <<"stamp">> \o @]
      [] uu.Scheme \in {"udp", "tcp"} -> newPlain(uu, opts, fails)
      [] uu.Scheme = "quic" -> newDoQ(uu, opts, fails)
      [] uu.Scheme = "tls" -> newDoT(uu, opts, fails)
      [] uu.Scheme = "https" -> newDoH(uu, opts, fails)
      [] OTHER ->
           [u |-> NoUpstream,
            err |-> AddrErr("unsupported url scheme", <<uu.Scheme>>),
            opts |-> opts, calls |-> <<>>]

\* urlToUpstream converts uu to an Upstream using opts.  calls lists the
\* stamp parser and the transport constructors that were called.
urlToUpstream(uu, opts, fails) ==
    CASE uu.Scheme = "sdns" ->
           LET r == parseStamp(uu, opts, fails) IN
           [r EXCEPT !.calls = <<"stamp">> \o @]
      [] uu.Scheme \in {"udp", "tcp"} -> newPlain(uu, opts, fails)
      [] uu.Scheme = "quic" -> newDoQ(uu, opts, fails)
      [] uu.Scheme = "tls" -> newDoT(uu, opts, fails)
      [] uu.Scheme \in {"h3", "https"} -> newDoH(uu, opts, fails)
      [] OTHER ->
           [u |-> NoUpstream,
            err |-> AddrErr("unsupported url scheme", <<uu.Scheme>>),
            opts |-> opts, calls |-> <<>>]

\* An AddressToUpstream that does not validate the port of a bare address.
AddressToUpstreamNoPortCheck(addr, opts, fails) ==
    IF ContainsSchemeSep(addr)
    THEN LET uu == UrlParse(addr) IN
         IF ~uu.ok
         THEN [u |-> NoUpstream, err |-> AddrErr("failed to parse", addr),
               opts |-> opts, calls |-> <<>>]
         ELSE urlToUpstream([Scheme |-> uu.Scheme, Host |-> uu.Host,
                             Path |-> uu.Path], opts, fails)
    ELSE urlToUpstream([Scheme |-> "udp", Host |-> addr, Path |-> ""],
                       opts, fails)

\* AddressToUpstream converts addr to an Upstream using the specified options.
AddressToUpstream(addr, opts, fails) ==
    IF ContainsSchemeSep(addr)
    THEN LET uu == UrlParse(addr) IN
         IF ~uu.ok
         THEN [u |-> NoUpstream, err |-> AddrErr("failed to parse", addr),
               opts |-> opts, calls |-> <<>>]
         ELSE urlToUpstream([Scheme |-> uu.Scheme, Host |-> uu.Host,
                             Path |-> uu.Path], opts, fails)
    ELSE LET sp == NetSplitHostPort(addr) IN
         IF sp.ok /\ ~ParseUint16Ok(sp.port)
         THEN [u |-> NoUpstream, err |-> AddrErr("invalid address", addr),
               opts |-> opts, calls |-> <<>>]
         ELSE urlToUpstream([Scheme |-> "udp", Host |-> addr, Path |-> ""],
                            opts, fails)

\* ------------------------------------------------------------- state -----
VARIABLES
    u,             \* the upstream URL
    opts,          \* the Options: ServerIPAddrs and Bootstrap
    phase,         \* "new", "built", "failed" (construction error), "closed"
    di,            \* the returned initializer: "nil", "fast" or "slow"
    handler,       \* the precomputed handler a fast-path closure captures
    closeBoot,     \* the returned closeFunc
    err,           \* the error newDialerInitializer returned
    resolvers,     \* the bootstrap chain the slow-path closure captures
    attempted,     \* Bootstrap indices at which a resolver was constructed
    closeLog,      \* the Close calls made so far on resolvers, in order
    closeRet,      \* what the upstream's call of closeBoot returned
    dialHandler,   \* atomic.Pointer[bootstrap.DialHandler]: the memoization cell
    pc,            \* per caller: position inside the initializer closure
    h,             \* per caller: the local h (result of ResolveDialContext)
    rets,          \* per caller: the (h, err) pairs its invocations returned
    startedSet,    \* per caller: was the cell set when its invocation began
    readUnset,     \* per caller: did its invocation load the cell as nil
    myRes,         \* per caller: resolutions made by its current invocation
    nres,          \* calls of bootstrap.ResolveDialContext so far
    nresOK,        \* of which returned without an error
    stores,        \* successful CompareAndSwap operations so far
    nStartedUnset, \* invocations that began while the cell was unset
    overlapped,    \* has an invocation begun while another was in progress
    addr,          \* the address of the latest AddressToUpstream call
    callerOpts,    \* the Options object the caller passes (modified in place)
    origOpts,      \* what callerOpts held when the latest call began
    res            \* what the latest AddressToUpstream call returned

vars == <<u, opts, phase, di, handler, closeBoot, err, resolvers, attempted,
          closeLog, closeRet, dialHandler, pc, h, rets, startedSet, readUnset,
          myRes, nres, nresOK, stores, nStartedUnset, overlapped,
          addr, callerOpts, origOpts, res>>

addrVars == <<addr, callerOpts, origOpts, res>>

consVars == <<u, opts, di, handler, closeBoot, err, resolvers, attempted>>
callVars == <<dialHandler, pc, h, rets, startedSet, readUnset, myRes, nres,
              nresOK, stores, nStartedUnset, overlapped>>

\* No AddressToUpstream call has been made.
NoResult == [u |-> NoUpstream, err |-> NoError,
             opts |-> [ServerIPAddrs |-> <<>>, Bootstrap |-> <<>>],
             calls |-> <<>>]

\* The state of the dialer before newDialerInitializer is called.
InitDialer ==
    /\ phase = "new"
    /\ di = "nil"
    /\ handler = NoHandler
    /\ closeBoot = nopClose
    /\ err = NoError
    /\ resolvers = <<>>
    /\ attempted = <<>>
    /\ closeLog = <<>>
    /\ closeRet = NoError
    /\ dialHandler = NoHandler
    /\ pc = [p \in Procs |-> "idle"]
    /\ h = [p \in Procs |-> NoHandler]
    /\ rets = [p \in Procs |-> <<>>]
    /\ startedSet = [p \in Procs |-> FALSE]
    /\ readUnset = [p \in Procs |-> FALSE]
    /\ myRes = [p \in Procs |-> 0]
    /\ nres = 0
    /\ nresOK = 0
    /\ stores = 0
    /\ nStartedUnset = 0
    /\ overlapped = FALSE

\* No address conversion is under way.
InitNoCall ==
    /\ addr = <<>>
    /\ callerOpts = [ServerIPAddrs |-> <<>>, Bootstrap |-> <<>>]
    /\ origOpts = callerOpts
    /\ res = NoResult

Init ==
    /\ u \in Urls
    /\ opts \in [ServerIPAddrs : SeqsUpTo(IPAddrs, MaxIPs),
                 Bootstrap     : SeqsUpTo(BootEntries, MaxBoot)]
    /\ InitDialer
    /\ InitNoCall

\* An eager construction: the slow path resolves the host name right away
\* and stores the result.
ConstructEager ==
    /\ phase = "new"
    /\ \E fails \in SUBSET (0..(Len(opts.Bootstrap) - 1)) :
         LET r == newDialerInitializer(u, opts, fails) IN
         /\ di' = r.di
         /\ handler' = r.handler
         /\ closeBoot' = r.closeBoot
         /\ err' = r.err
         /\ resolvers' = r.resolvers
         /\ attempted' = r.attempted
         /\ closeLog' = closeLog \o r.closed
         /\ phase' = IF r.err = NoError THEN "built" ELSE "failed"
         /\ nres' = IF r.di = "slow" THEN nres + 1 ELSE nres
         /\ nresOK' = IF r.di = "slow" THEN nresOK + 1 ELSE nresOK
         /\ stores' = IF r.di = "slow" THEN stores + 1 ELSE stores
         /\ dialHandler' = IF r.di = "slow"
                           THEN ResolvedHandler(nres + 1) ELSE dialHandler
    /\ UNCHANGED <<u, opts, closeRet>>
    /\ UNCHANGED addrVars
    /\ UNCHANGED <<pc, h, rets, startedSet, readUnset, myRes, nStartedUnset,
                   overlapped>>

\* A transport constructor calls newDialerInitializer(u, opts).  fails is the
\* set of entries whose resolver's Close returns an error.
Construct ==
    /\ phase = "new"
    /\ \E fails \in SUBSET (0..(Len(opts.Bootstrap) - 1)) :
         LET r == newDialerInitializer(u, opts, fails) IN
         /\ di' = r.di
         /\ handler' = r.handler
         /\ closeBoot' = r.closeBoot
         /\ err' = r.err
         /\ resolvers' = r.resolvers
         /\ attempted' = r.attempted
         /\ closeLog' = closeLog \o r.closed
         /\ phase' = IF r.err = NoError THEN "built" ELSE "failed"
    /\ UNCHANGED <<u, opts, closeRet>>
    /\ UNCHANGED addrVars
    /\ UNCHANGED callVars

\* The upstream is closed: its Close calls the closeBoot it was given.
CloseUpstream ==
    /\ phase = "built"
    /\ \E fails \in SUBSET (0..(Len(opts.Bootstrap) - 1)) :
         LET c == CallClose(closeBoot, fails) IN
         /\ closeLog' = closeLog \o c.called
         /\ closeRet' = c.err
    /\ phase' = "closed"
    /\ UNCHANGED consVars
    /\ UNCHANGED addrVars
    /\ UNCHANGED callVars

\* return hh, e from the closure.
Return(p, hh, e) ==
    /\ rets' = [rets EXCEPT ![p] = Append(@, [h |-> hh, err |-> e])]
    /\ pc' = [pc EXCEPT ![p] = "idle"]
    /\ h' = [h EXCEPT ![p] = NoHandler]

\* A fast-path closure that builds a new handler on every call.
FastCallRebuild(p) ==
    /\ phase = "built"
    /\ di = "fast"
    /\ pc[p] = "idle"
    /\ Len(rets[p]) < MaxCalls
    /\ Return(p, [handler EXCEPT !.id = Len(rets[p]) + 1], NoError)
    /\ UNCHANGED <<dialHandler, startedSet, readUnset, myRes, nres, nresOK,
                   stores, nStartedUnset, overlapped>>
    /\ UNCHANGED <<phase, closeLog, closeRet>>
    /\ UNCHANGED consVars
    /\ UNCHANGED addrVars

\* An exchange calls the fast-path closure: return handler, nil.
FastCall(p) ==
    /\ phase = "built"
    /\ di = "fast"
    /\ pc[p] = "idle"
    /\ Len(rets[p]) < MaxCalls
    /\ Return(p, handler, NoError)
    /\ UNCHANGED <<dialHandler, startedSet, readUnset, myRes, nres, nresOK,
                   stores, nStartedUnset, overlapped>>
    /\ UNCHANGED <<phase, closeLog, closeRet>>
    /\ UNCHANGED consVars
    /\ UNCHANGED addrVars

\* An exchange calls the slow-path closure.
Invoke(p) ==
    /\ phase = "built"
    /\ di = "slow"
    /\ pc[p] = "idle"
    /\ Len(rets[p]) < MaxCalls
    /\ pc' = [pc EXCEPT ![p] = "load"]
    /\ startedSet' = [startedSet EXCEPT ![p] = (dialHandler # NoHandler)]
    /\ readUnset' = [readUnset EXCEPT ![p] = FALSE]
    /\ myRes' = [myRes EXCEPT ![p] = 0]
    /\ nStartedUnset' = IF dialHandler = NoHandler
                        THEN nStartedUnset + 1 ELSE nStartedUnset
    /\ overlapped' = (overlapped \/ \E q \in Procs : pc[q] # "idle")
    /\ UNCHANGED <<dialHandler, h, rets, nres, nresOK, stores>>
    /\ UNCHANGED <<phase, closeLog, closeRet>>
    /\ UNCHANGED consVars
    /\ UNCHANGED addrVars

\* A closure that does not look at the cell before resolving.
LoadNoCheck(p) ==
    /\ pc[p] = "load"
    /\ pc' = [pc EXCEPT ![p] = "resolve"]
    /\ readUnset' = [readUnset EXCEPT ![p] = (dialHandler = NoHandler)]
    /\ UNCHANGED <<h, rets>>
    /\ UNCHANGED <<dialHandler, startedSet, myRes, nres, nresOK, stores,
                   nStartedUnset, overlapped>>
    /\ UNCHANGED <<phase, closeLog, closeRet>>
    /\ UNCHANGED consVars
    /\ UNCHANGED addrVars

\* if hPtr := dialHandler.Load(); hPtr != nil { return *hPtr, nil }
Load(p) ==
    /\ pc[p] = "load"
    /\ IF dialHandler # NoHandler
       THEN /\ Return(p, dialHandler, NoError)
            /\ UNCHANGED readUnset
       ELSE /\ pc' = [pc EXCEPT ![p] = "resolve"]
            /\ readUnset' = [readUnset EXCEPT ![p] = TRUE]
            /\ UNCHANGED <<h, rets>>
    /\ UNCHANGED <<dialHandler, startedSet, myRes, nres, nresOK, stores,
                   nStartedUnset, overlapped>>
    /\ UNCHANGED <<phase, closeLog, closeRet>>
    /\ UNCHANGED consVars
    /\ UNCHANGED addrVars

\* A closure that stores the result before looking at the error, so that a
\* failed resolution leaves a handler-less entry in the cell.
ResolveStoreFailure(p) ==
    /\ pc[p] = "resolve"
    /\ nres' = nres + 1
    /\ myRes' = [myRes EXCEPT ![p] = @ + 1]
    /\ \E ok \in BOOLEAN :
         IF ok
         THEN /\ h' = [h EXCEPT ![p] = ResolvedHandler(nres + 1)]
              /\ pc' = [pc EXCEPT ![p] = "cas"]
              /\ nresOK' = nresOK + 1
              /\ UNCHANGED <<rets, dialHandler>>
         ELSE /\ Return(p, NoHandler, ResolveErr)
              /\ dialHandler' = IF dialHandler = NoHandler
                                THEN [kind |-> "failed", id |-> nres + 1, addrs |-> <<>>]
                                ELSE dialHandler
              /\ UNCHANGED nresOK
    /\ UNCHANGED <<startedSet, readUnset, stores, nStartedUnset, overlapped>>
    /\ UNCHANGED <<phase, closeLog, closeRet>>
    /\ UNCHANGED consVars
    /\ UNCHANGED addrVars

\* h, resolveErr := bootstrap.ResolveDialContext(...); on an error the
\* closure returns nil and the wrapped error.
Resolve(p) ==
    /\ pc[p] = "resolve"
    /\ nres' = nres + 1
    /\ myRes' = [myRes EXCEPT ![p] = @ + 1]
    /\ \E ok \in BOOLEAN :
         IF ok
         THEN /\ h' = [h EXCEPT ![p] = ResolvedHandler(nres + 1)]
              /\ pc' = [pc EXCEPT ![p] = "cas"]
              /\ nresOK' = nresOK + 1
              /\ UNCHANGED rets
         ELSE /\ Return(p, NoHandler, ResolveErr)
              /\ UNCHANGED nresOK
    /\ UNCHANGED <<dialHandler, startedSet, readUnset, stores, nStartedUnset,
                   overlapped>>
    /\ UNCHANGED <<phase, closeLog, closeRet>>
    /\ UNCHANGED consVars
    /\ UNCHANGED addrVars

\* A closure that stores unconditionally (Store instead of CompareAndSwap).
StoreAlways(p) ==
    /\ pc[p] = "cas"
    /\ dialHandler' = h[p]
    /\ stores' = stores + 1
    /\ Return(p, h[p], NoError)
    /\ UNCHANGED <<startedSet, readUnset, myRes, nres, nresOK, nStartedUnset,
                   overlapped>>
    /\ UNCHANGED <<phase, closeLog, closeRet>>
    /\ UNCHANGED consVars
    /\ UNCHANGED addrVars

\* A closure that resolves again after losing the race.
CompareAndSwapRetry(p) ==
    /\ pc[p] = "cas"
    /\ IF dialHandler = NoHandler
       THEN /\ dialHandler' = h[p]
            /\ stores' = stores + 1
            /\ Return(p, h[p], NoError)
       ELSE /\ pc' = [pc EXCEPT ![p] = IF myRes[p] < 2 THEN "resolve" ELSE "lost"]
            /\ UNCHANGED <<dialHandler, stores, h, rets>>
    /\ UNCHANGED <<startedSet, readUnset, myRes, nres, nresOK, nStartedUnset,
                   overlapped>>
    /\ UNCHANGED <<phase, closeLog, closeRet>>
    /\ UNCHANGED consVars
    /\ UNCHANGED addrVars

\* A closure that, after losing the race, tries the same CompareAndSwap
\* again and again.
CompareAndSwapSpin(p) ==
    /\ pc[p] = "cas"
    /\ IF dialHandler = NoHandler
       THEN /\ dialHandler' = h[p]
            /\ stores' = stores + 1
            /\ Return(p, h[p], NoError)
       ELSE UNCHANGED <<dialHandler, stores, h, rets, pc>>
    /\ UNCHANGED <<startedSet, readUnset, myRes, nres, nresOK, nStartedUnset,
                   overlapped>>
    /\ UNCHANGED <<phase, closeLog, closeRet>>
    /\ UNCHANGED consVars
    /\ UNCHANGED addrVars

\* A closure whose CompareAndSwap compares with the wrong old value and so
\* never succeeds.
CompareAndSwapNeverStores(p) ==
    /\ pc[p] = "cas"
    /\ pc' = [pc EXCEPT ![p] = "lost"]
    /\ UNCHANGED <<dialHandler, stores, h, rets>>
    /\ UNCHANGED <<startedSet, readUnset, myRes, nres, nresOK, nStartedUnset,
                   overlapped>>
    /\ UNCHANGED <<phase, closeLog, closeRet>>
    /\ UNCHANGED consVars
    /\ UNCHANGED addrVars

\* if !dialHandler.CompareAndSwap(nil, &h) { ... } return h, nil
CompareAndSwap(p) ==
    /\ pc[p] = "cas"
    /\ IF dialHandler = NoHandler
       THEN /\ dialHandler' = h[p]
            /\ stores' = stores + 1
            /\ Return(p, h[p], NoError)
       ELSE /\ pc' = [pc EXCEPT ![p] = "lost"]
            /\ UNCHANGED <<dialHandler, stores, h, rets>>
    /\ UNCHANGED <<startedSet, readUnset, myRes, nres, nresOK, nStartedUnset,
                   overlapped>>
    /\ UNCHANGED <<phase, closeLog, closeRet>>
    /\ UNCHANGED consVars
    /\ UNCHANGED addrVars

\* A closure that returns its own result after losing the race.
LostReturnOwn(p) ==
    /\ pc[p] = "lost"
    /\ Return(p, h[p], NoError)
    /\ UNCHANGED <<dialHandler, startedSet, readUnset, myRes, nres, nresOK,
                   stores, nStartedUnset, overlapped>>
    /\ UNCHANGED <<phase, closeLog, closeRet>>
    /\ UNCHANGED consVars
    /\ UNCHANGED addrVars

\* return *dialHandler.Load(), nil  (dereferencing nil panics)
LostLoad(p) ==
    /\ pc[p] = "lost"
    /\ IF dialHandler = NoHandler
       THEN Return(p, NoHandler, PanicErr)
       ELSE Return(p, dialHandler, NoError)
    /\ UNCHANGED <<dialHandler, startedSet, readUnset, myRes, nres, nresOK,
                   stores, nStartedUnset, overlapped>>
    /\ UNCHANGED <<phase, closeLog, closeRet>>
    /\ UNCHANGED consVars
    /\ UNCHANGED addrVars

Next ==
    \/ Construct
    \/ CloseUpstream
    \/ \E p \in Procs : FastCall(p)
    \/ \E p \in Procs : Invoke(p)
    \/ \E p \in Procs : Load(p)
    \/ \E p \in Procs : Resolve(p)
    \/ \E p \in Procs : CompareAndSwap(p)
    \/ \E p \in Procs : LostLoad(p)

Spec == Init /\ [][Next]_vars

TypeOK ==
    /\ phase \in {"new", "built", "failed", "closed"}
    /\ di \in {"nil", "fast", "slow"}
    /\ \A p \in Procs : pc[p] \in {"idle", "load", "resolve", "cas", "lost"}

\* ------------------------------------------------- address conversion ----
Schemes == {"udp", "tcp", "tls", "https", "h3", "quic", "ftp"}
HostNames == {"dns.example", "1.1.1.1"}
PortSuffixes == {<<>>, <<":", "53">>, <<":", "65535">>, <<":", "65536">>,
                 <<":", "x">>}

\* The addresses callers pass: URLs, bare addresses, malformed ones, stamps.
Addrs ==
    {<<sch, "://", hn>> \o ps :
        sch \in Schemes, hn \in HostNames, ps \in PortSuffixes}
    \cup {<<hn>> \o ps : hn \in HostNames, ps \in PortSuffixes}
    \cup { <<"dns.example", ":">>,
           <<"fe80", ":", ":", "abcd">>,
           <<"[", "fe80", ":", ":", "abcd", "]", ":", "53">>,
           <<"[", "fe80", ":", ":", "abcd", "]", ":", "x">>,
           <<"https", "://", "dns.example", "/dns-query">>,
           <<"://", "dns.example">>,
           <<"tls", "://", "%zz">>,
           <<"sdns", "://", "notastamp">> }
    \cup {<<"sdns", "://", t>> : t \in DOMAIN Stamps}

\* The Options callers start with.
AddrOpts == [ServerIPAddrs : SeqsUpTo(IPAddrs, MaxIPs),
             Bootstrap     : {<<>>, <<"8.8.8.8:53">>, <<"bad://">>}]

InitAddr ==
    /\ u = [host |-> "dns.example", port |-> "853"]
    /\ opts = [ServerIPAddrs |-> <<>>, Bootstrap |-> <<>>]
    /\ InitDialer
    /\ addr = <<>>
    /\ callerOpts \in AddrOpts
    /\ origOpts = callerOpts
    /\ res = NoResult

\* A caller calls AddressToUpstream(a, callerOpts); the Options object may
\* be used again for the next call.
AddressToUpstreamCall ==
    \E a \in Addrs :
      \E fails \in SUBSET (0..(Len(callerOpts.Bootstrap) - 1)) :
      \E r \in {AddressToUpstream(a, callerOpts, fails)} :
        /\ addr' = a
        /\ origOpts' = callerOpts
        /\ callerOpts' = r.opts
        /\ res' = r
        /\ UNCHANGED <<u, opts, phase, closeLog, closeRet>>
        /\ UNCHANGED <<di, handler, closeBoot, err, resolvers, attempted>>
        /\ UNCHANGED callVars

NextAddr == AddressToUpstreamCall

SpecAddr == InitAddr /\ [][NextAddr]_vars

\* ------------------------------------------------------------ helpers ----
Last(seq) == seq[Len(seq)]

InFlight(p) == pc[p] # "idle"

\* All the (h, err) pairs returned so far by slow-path invocations.
AllRets == UNION {{rets[p][k] : k \in 1..Len(rets[p])} : p \in Procs}

\* Zero-based indices of the non-empty entries of a bootstrap list, in order.
NonEmptyIdx(boots) ==
    SelectSeq([k \in 1..Len(boots) |-> k - 1], LAMBDA i : boots[i + 1] # "")

\* Zero-based index of the first entry NewUpstreamResolver rejects.
FirstBad(boots) ==
    CHOOSE i \in 0..(Len(boots) - 1) :
        /\ boots[i + 1] = "bad://"
        /\ \A j \in 0..(i - 1) : boots[j + 1] # "bad://"

\* The errors of the failed Close calls of a log, in order.
FailedCloseErrs(log) ==
    LET f == SelectSeq(log, LAMBDA c : c.failed) IN
    [k \in 1..Len(f) |-> [kind |-> "close", index |-> f[k].index]]

LogIdx(log) == [k \in 1..Len(log) |-> log[k].index]

ConstructionFailed == phase = "failed" /\ ~SplitHostPortFails(u)

\* -------------------------------------------------------------- claims ---
\* C1: the memoization cell of a slow-path initializer is single-assignment:
\* once set it is never unset or replaced, and at most one store into it
\* ever succeeds.
C1_SingleAssignment ==
    [][/\ (dialHandler # NoHandler => dialHandler' = dialHandler)
       /\ stores' <= 1
       /\ ((dialHandler' # NoHandler) <=> (stores' = 1))]_vars

\* C1 witness: the cell is set and another caller has just lost its store.
C1_Witness ==
    /\ stores = 1
    /\ dialHandler # NoHandler
    /\ \E p \in Procs : pc[p] = "lost" /\ h[p] # dialHandler

\* C2: every slow-path invocation that returned without error returned the
\* handler held in the cell, so no two callers received different handlers.
C2_SameHandler ==
    di = "slow" =>
        \A r \in AllRets :
            r.err = NoError => (r.h = dialHandler /\ r.h # NoHandler)

\* C2 witness: two callers both resolved successfully (two different
\* handlers were produced) and each has returned without error.
C2_Witness ==
    /\ nresOK >= 2
    /\ overlapped
    /\ \A p \in Procs : rets[p] # <<>> /\ rets[p][1].err = NoError

\* C3: an invocation that began after the cell was set performs no resolution
\* and returns the stored handler; without overlapping invocations at most
\* one resolution succeeds, and none is made once the cell is set.
C3_NoResolutionOnceSet ==
    /\ \A p \in Procs :
        (di = "slow" /\ startedSet[p]) =>
            /\ myRes[p] = 0
            /\ pc[p] \in {"load", "idle"}
            /\ (pc[p] = "idle" =>
                    Last(rets[p]) = [h |-> dialHandler, err |-> NoError])
    /\ (~overlapped => nresOK <= 1)

\* C3 witness: without any overlap, a caller whose invocation began after the
\* cell was set has returned, after an earlier call resolved once.
C3_Witness ==
    /\ ~overlapped
    /\ nres = 1
    /\ \E p \in Procs : startedSet[p] /\ pc[p] = "idle" /\ Len(rets[p]) = 2
    /\ \A p \in Procs : rets[p] # <<>>

\* C4: over the lifetime of one initializer the hostname is resolved only
\* once, also when first invocations run concurrently.
C4_ResolvedOnce == nresOK <= 1

\* C5: an invocation resolves if and only if it read the cell as unset, and
\* at most once; the resolutions never outnumber the invocations that began
\* while the cell was unset.
C5_NotDeduplicated ==
    /\ \A p \in Procs :
        /\ myRes[p] <= 1
        /\ (myRes[p] = 1 => readUnset[p])
        /\ (pc[p] \in {"load", "resolve"} => myRes[p] = 0)
        /\ ((readUnset[p] /\ pc[p] \in {"cas", "lost", "idle"}) => myRes[p] = 1)
    /\ nres <= nStartedUnset

\* C5 witness: two concurrent first callers have each resolved before any
\* store happened.
C5_Witness ==
    /\ dialHandler = NoHandler
    /\ stores = 0
    /\ nres = 2
    /\ \A p \in {1, 2} : pc[p] = "cas" /\ myRes[p] = 1 /\ Len(rets[p]) = 0

\* C6: an invocation whose resolution fails returns the error and no handler
\* and leaves the cell as it was; the cell never holds anything but the
\* result of a successful resolution.
C6_FailureNotMemoized ==
    [][/\ \A p \in Procs :
            (pc[p] = "resolve" /\ pc'[p] = "idle") =>
                /\ dialHandler' = dialHandler
                /\ Last(rets'[p]) = [h |-> NoHandler, err |-> ResolveErr]
       /\ (nresOK' = 0 => dialHandler' = NoHandler)
       /\ dialHandler'.kind \in {"none", "resolved"}]_vars

\* C6 witness: without overlap, a caller's first invocation failed and its
\* second one, begun while the cell was still unset, resolved and succeeded.
C6_Witness ==
    /\ ~overlapped
    /\ \E p \in Procs :
        /\ Len(rets[p]) = 2
        /\ rets[p][1] = [h |-> NoHandler, err |-> ResolveErr]
        /\ rets[p][2].err = NoError
        /\ rets[p][2].h = dialHandler
        /\ ~startedSet[p]
        /\ \A q \in Procs \ {p} : rets[q] = <<>>

\* C7: with a non-empty explicit server IP list no bootstrap resolver is
\* ever constructed or queried, and for a host name as for a literal IP the
\* initializer is the fast-path one.
C7_ExplicitIPsFastPath ==
    (phase # "new" /\ Len(opts.ServerIPAddrs) > 0) =>
        /\ resolvers = <<>>
        /\ attempted = <<>>
        /\ closeLog = <<>>
        /\ nres = 0
        /\ (~SplitHostPortFails(u) =>
                /\ di = "fast"
                /\ handler.kind = "static"
                /\ Len(handler.addrs) = Len(opts.ServerIPAddrs)
                /\ closeBoot = nopClose)

\* C7 witness: a host name with explicit server IPs and a non-empty bootstrap
\* list; the initializer has been called and the upstream closed.
C7_Witness ==
    /\ phase = "closed"
    /\ Len(opts.ServerIPAddrs) > 0
    /\ ~ParseAddrOk(u.host)
    /\ ~SplitHostPortFails(u)
    /\ \E k \in 1..Len(opts.Bootstrap) : opts.Bootstrap[k] = "8.8.8.8:53"
    /\ \E p \in Procs : rets[p] # <<>>

\* C8: when the construction of the resolver at index i fails, nothing is
\* constructed beyond i, every upstream-backed resolver built before i is
\* closed exactly once, the error names i and is joined with the close
\* errors, and no initializer is returned (nil, with a no-op close).
C8_AbortAtFirstFailure ==
    ConstructionFailed =>
        LET i == FirstBad(opts.Bootstrap)
            before == SubSeq(opts.Bootstrap, 1, i)
        IN
        /\ attempted = [k \in 1..(i + 1) |-> k - 1]
        /\ LogIdx(closeLog) = NonEmptyIdx(before)
        /\ err = <<[kind |-> "boot", index |-> i]>> \o FailedCloseErrs(closeLog)
        /\ di = "nil"
        /\ resolvers = <<>>
        /\ closeBoot = nopClose
        /\ \A fails \in SUBSET (0..(Len(opts.Bootstrap) - 1)) :
               CallClose(closeBoot, fails).called = <<>>

\* C8 witness: an upstream-backed resolver at index 0, a failure at index 1,
\* a further entry at index 2, and the unwinding Close returned an error.
C8_Witness ==
    /\ ConstructionFailed
    /\ Len(opts.Bootstrap) = 3
    /\ opts.Bootstrap[1] = "8.8.8.8:53"
    /\ opts.Bootstrap[2] = "bad://"
    /\ Len(closeLog) = 1
    /\ closeLog[1].failed

\* C9: the chain's close calls Close on every upstream-backed resolver of
\* the chain, whatever the earlier calls returned, on no system-default one,
\* and returns the join of exactly the errors those calls returned.
C9_CloseAll ==
    (phase = "closed" /\ di = "slow") =>
        /\ LogIdx(closeLog) = NonEmptyIdx(opts.Bootstrap)
        /\ \A k \in 1..Len(closeLog) :
               resolvers[closeLog[k].index + 1].kind = "upstream"
        /\ closeRet = FailedCloseErrs(closeLog)
        /\ (closeRet # NoError <=> \E k \in 1..Len(closeLog) : closeLog[k].failed)

\* C9 witness: a chain of an upstream-backed, a system-default and another
\* upstream-backed resolver was closed; the first Close failed.
C9_Witness ==
    /\ phase = "closed"
    /\ di = "slow"
    /\ Len(resolvers) = 3
    /\ resolvers[2].kind = "system"
    /\ Len(closeLog) = 2
    /\ closeLog[1].failed
    /\ Len(closeRet) >= 1

\* C10: after a successful construction the chain mirrors Options.Bootstrap
\* position by position; an empty list gives one system-default resolver.
C10_ChainMirrorsBootstrap ==
    (phase \in {"built", "closed"} /\ di = "slow") =>
        LET boots == opts.Bootstrap IN
        IF boots = <<>>
        THEN resolvers = <<[kind |-> "system", boot |-> "", index |-> -1]>>
        ELSE /\ Len(resolvers) = Len(boots)
             /\ \A k \in 1..Len(boots) :
                    IF boots[k] = ""
                    THEN resolvers[k].kind = "system"
                    ELSE resolvers[k] =
                            [kind |-> "upstream", boot |-> boots[k], index |-> k - 1]

\* C10 witness: a built chain from a list mixing system-default and
\* upstream-backed positions.
C10_Witness ==
    /\ phase = "built"
    /\ di = "slow"
    /\ Len(opts.Bootstrap) = 3
    /\ opts.Bootstrap[1] = ""
    /\ opts.Bootstrap[2] = "8.8.8.8:53"
    /\ resolvers[1].kind = "system"
    /\ resolvers[2].kind = "upstream"

\* ------------------------------------------------- fairness and laziness --
\* One step of caller p inside the slow-path closure.
Step(p) == Load(p) \/ Resolve(p) \/ CompareAndSwap(p) \/ LostLoad(p)

\* Every goroutine inside the closure keeps being scheduled, and every
\* bootstrap resolution it starts returns.
Fairness == \A p \in Procs : WF_vars(Step(p))

\* The liveness of the closure does not depend on the bootstrap list, so it
\* is checked for the lists of at most MaxBootLive entries.
InitLive == Init /\ Len(opts.Bootstrap) <= MaxBootLive

SpecLive == InitLive /\ [][Next]_vars /\ Fairness

\* No exchange has called the initializer.
NeverInvoked ==
    /\ nStartedUnset = 0
    /\ \A p \in Procs : rets[p] = <<>> /\ pc[p] = "idle"

ExpectedStatic ==
    IF Len(opts.ServerIPAddrs) > 0
    THEN [kind |-> "static", id |-> 0,
          addrs |-> [k \in 1..Len(opts.ServerIPAddrs) |->
                        <<opts.ServerIPAddrs[k], u.port>>]]
    ELSE [kind |-> "static", id |-> 0, addrs |-> << <<u.host, u.port>> >>]

\* C16: on either fast path the handler is the one built at construction,
\* every invocation returns it with no error, and the close operation is a
\* no-op returning no error.
C16_FastPathStatic ==
    di = "fast" =>
        /\ handler = ExpectedStatic
        /\ \A p \in Procs : \A k \in 1..Len(rets[p]) :
               rets[p][k] = [h |-> ExpectedStatic, err |-> NoError]
        /\ \A p \in Procs : pc[p] = "idle"
        /\ closeBoot = nopClose
        /\ closeLog = <<>>
        /\ closeRet = NoError
        /\ nres = 0
        /\ dialHandler = NoHandler

\* C16 witness: the literal-IP fast path, called twice by one caller and once
\* by another, then closed.
C16_Witness ==
    /\ di = "fast"
    /\ phase = "closed"
    /\ Len(opts.ServerIPAddrs) = 0
    /\ Len(opts.Bootstrap) > 0
    /\ \E p \in Procs : Len(rets[p]) = 2
    /\ \A p \in Procs : rets[p] # <<>>

\* C17: no caller ever waits for another one (a caller inside the closure
\* can always take its next step), and every invocation eventually returns.
C17_LockFree ==
    /\ [](\A p \in Procs : InFlight(p) => ENABLED Step(p))
    /\ \A p \in Procs : (InFlight(p) ~> ~InFlight(p))

\* C17 witness: every caller is inside the closure at once, one of them
\* having lost the race, and each can still take a step.
C17_Witness ==
    /\ \A p \in Procs : InFlight(p)
    /\ \E p \in Procs : pc[p] = "lost"
    /\ \A p \in Procs : ENABLED Step(p)

C19_LostLoadFindsSet ==
    /\ \A p \in Procs : pc[p] = "lost" => dialHandler # NoHandler
    /\ \A r \in AllRets : r.err # PanicErr

\* C19 witness: a caller went through the lost-race path and returned the
\* stored handler, which is not the one it resolved itself.
C19_Witness ==
    \E p \in Procs :
        /\ pc[p] = "idle"
        /\ Len(rets[p]) = 1
        /\ myRes[p] = 1
        /\ readUnset[p]
        /\ Last(rets[p]) = [h |-> dialHandler, err |-> NoError]
        /\ dialHandler.id = 2
        /\ nresOK = 2
        /\ nres = 2
        /\ \A q \in Procs \ {p} :
               pc[q] = "idle" /\ Len(rets[q]) = 1 /\ myRes[q] = 1

\* ------------------------------------------------ address claims (helpers)
\* An AddressToUpstream call has returned.
Called == addr # <<>>

URLShaped(a) == \E i \in 1..Len(a) : a[i] = "://"

\* The tokens after the last colon of a, as a string.
ColonSuffix(a) ==
    LET c == {i \in 1..Len(a) : a[i] = ":"} IN
    Flat(SubSeq(a, MaxOf(c) + 1, Len(a)))

HasColon(a) == \E i \in 1..Len(a) : a[i] = ":"

\* A decimal string denoting a 16-bit number.
IsPort16(str) == str \in {"53", "443", "853", "65535"}

\* A URL-shaped address that is not a valid URL: no scheme, an invalid
\* escape, or a port that is not a number.
InvalidURL(a) ==
    \/ a[1] = "://"
    \/ \E i \in 1..Len(a) : a[i] = "%zz"
    \/ (HasColon(a) /\ ColonSuffix(a) \notin {"", "53", "443", "853", "65535", "65536"})

\* A bare address of the form host:port or [host]:port.
SplitsAsHostPort(a) ==
    \/ (Len(a) \in {2, 3} /\ a[1] \notin {"[", ":"} /\ a[2] = ":")
    \/ (a[1] = "[" /\ \E j \in 2..(Len(a) - 1) :
            /\ a[j] = "]"
            /\ a[j + 1] = ":"
            /\ j + 2 >= Len(a)
            /\ \A k \in 2..(j - 1) : a[k] \notin {"[", "]"})

\* The call failed with a malformed-address error naming the input, without
\* calling the stamp parser or a transport constructor.
RejectedAsMalformed ==
    /\ res.u = NoUpstream
    /\ res.calls = <<>>
    /\ Len(res.err) = 1
    /\ res.err[1].kind \in {"failed to parse", "invalid address"}
    /\ res.err[1].input = addr

\* The scheme a well-formed address selects.
SchemeOf(a) == IF URLShaped(a) THEN a[1] ELSE "udp"

\* A bare address whose port is absent or a 16-bit number.
BareOk(a) ==
    /\ ~URLShaped(a)
    /\ (Len(a) = 1 \/ (SplitsAsHostPort(a) /\ IsPort16(ColonSuffix(a))))

\* C11: the dispatch on the scheme is total and closed: udp and tcp (and a
\* bare address) call the plain constructor, tls DoT, https and h3 DoH, quic
\* DoQ, sdns the stamp parser first; any other scheme fails with the
\* unsupported-scheme error, calls no constructor and returns no upstream.
C11_DispatchTotal ==
    (Called /\ (BareOk(addr) \/ (URLShaped(addr) /\ ~InvalidURL(addr)))) =>
        LET sch == SchemeOf(addr) IN
        CASE sch \in {"udp", "tcp"} -> res.calls = <<"plain">>
          [] sch = "tls" -> res.calls = <<"DoT">>
          [] sch \in {"https", "h3"} -> res.calls = <<"DoH">>
          [] sch = "quic" -> res.calls = <<"DoQ">>
          [] sch = "sdns" -> Head(res.calls) = "stamp" /\ Len(res.calls) <= 2
          [] OTHER ->
               /\ res.calls = <<>>
               /\ res.u = NoUpstream
               /\ Len(res.err) = 1
               /\ res.err[1].kind = "unsupported url scheme"

\* C11 witness: an h3 address has been given to the DoH constructor.
C11_Witness ==
    /\ Called
    /\ addr[1] = "h3"
    /\ res.calls = <<"DoH">>
    /\ res.u.kind = "DoH"

\* C12 (as claimed): every URL-shaped address that is not a valid URL, and
\* every bare address whose colon-delimited suffix is not a 16-bit port
\* number, fails with a malformed-address error naming the input before any
\* constructor is called.
C12_EveryBadSuffixRejected ==
    Called =>
        /\ (URLShaped(addr) /\ InvalidURL(addr)) => RejectedAsMalformed
        /\ (~URLShaped(addr) /\ HasColon(addr) /\ ~IsPort16(ColonSuffix(addr)))
              => RejectedAsMalformed

\* C12 (amended): every URL-shaped address that is not a valid URL, and
\* every bare address of the form host:port or [host]:port whose port is
\* not a 16-bit number, fails with a malformed-address error naming the
\* input before any constructor is called; a bare address that does not
\* split into host and port is handed to the plain constructor unvalidated.
C12_MalformedRejected ==
    Called =>
        /\ (URLShaped(addr) /\ InvalidURL(addr)) => RejectedAsMalformed
        /\ (~URLShaped(addr) /\ SplitsAsHostPort(addr)
                /\ ~IsPort16(ColonSuffix(addr))) => RejectedAsMalformed
        /\ (~URLShaped(addr) /\ ~SplitsAsHostPort(addr))
              => res.calls = <<"plain">>

\* C12 witness: a bare address with the port 65536 has been rejected.
C12_Witness ==
    /\ addr = <<"dns.example", ":", "65536">>
    /\ RejectedAsMalformed

\* The stamps of the model that carry a literal server address.
StampsWithIP ==
    {t \in DOMAIN Stamps :
        /\ Stamps[t].ServerAddrStr # <<>>
        /\ Head(Stamps[t].ServerAddrStr) \in IPLiterals}

StampsWithoutAddr == {t \in DOMAIN Stamps : Stamps[t].ServerAddrStr = <<>>}

\* C13: a stamp with a literal server address leaves exactly that address in
\* the Options' explicit server address list, whatever the list held, and
\* the upstream built from it has a fast-path initializer and no bootstrap
\* chain; a stamp without one leaves the list as it was.
C13_StampOverwrites ==
    (Called /\ Len(addr) = 3 /\ addr[1] = "sdns") =>
        /\ addr[3] \in StampsWithIP =>
              /\ callerOpts.ServerIPAddrs = <<Head(Stamps[addr[3]].ServerAddrStr)>>
              /\ callerOpts.Bootstrap = origOpts.Bootstrap
              /\ (res.err = NoError =>
                     /\ res.u.resolvers = <<>>
                     /\ res.u.attempted = <<>>
                     /\ (res.u.kind # "DNSCrypt" => res.u.di = "fast"))
        /\ addr[3] \in StampsWithoutAddr => callerOpts = origOpts

\* C13 witness: a DoH stamp with the address 8.8.8.8 was parsed with Options
\* that held 9.9.9.9 and a bootstrap list.
C13_Witness ==
    /\ addr = <<"sdns", "://", "stampDoH-addr">>
    /\ origOpts.ServerIPAddrs = <<"9.9.9.9">>
    /\ origOpts.Bootstrap # <<>>
    /\ callerOpts.ServerIPAddrs = <<"8.8.8.8">>
    /\ res.u.kind = "DoH"
    /\ res.u.di = "fast"

\* The default port of the protocol a scheme selects, as a string.
DefaultPortOf(sch) ==
    CASE sch \in {"udp", "tcp"} -> "53"
      [] sch \in {"tls", "quic"} -> "853"
      [] sch \in {"https", "h3"} -> "443"

SupportedSchemes == {"udp", "tcp", "tls", "quic", "https", "h3"}

\* C14: for a valid scheme://host[:port] address the upstream's address is
\* host:port, the port being the given one or else the protocol's default;
\* injecting a port again changes nothing.
C14_CanonicalAddress ==
    (Called /\ URLShaped(addr) /\ ~InvalidURL(addr)
        /\ addr[1] \in SupportedSchemes /\ res.err = NoError) =>
        LET given == IF Len(addr) >= 5 /\ addr[4] = ":" THEN addr[5] ELSE ""
            port  == IF given = "" THEN DefaultPortOf(addr[1]) ELSE given
        IN
        /\ Flat(res.u.Host) = addr[3] \o ":" \o port
        /\ \A n \in {53, 443, 853} :
               addPort([Scheme |-> addr[1], Host |-> res.u.Host,
                        Path |-> res.u.Path], n).Host = res.u.Host

\* C14 witness: a quic address without a port got the port 853.
C14_Witness ==
    /\ addr = <<"quic", "://", "dns.example">>
    /\ res.err = NoError
    /\ Flat(res.u.Host) = "dns.example:853"

\* C20: when AddressToUpstream returns an error the caller's Options are as
\* they were before the call.
C20_ErrorLeavesOptions ==
    (Called /\ res.err # NoError) => callerOpts = origOpts

====
